---- MODULE Spec2Model ----
(***************************************************************************)
(* A model of the CHIP-8 interpreter of rust-chip8: the machine state of   *)
(* src/chip8/mod.rs (struct Chip8 = IOState + CpuState), its public        *)
(* operations new, load_rom, cycle, press_key and unpress_key, and the     *)
(* instruction executor process_opcode with draw_sprite / xor_bits.        *)
(*                                                                         *)
(* A Rust panic (index out of bounds, the explicit panic! of RET) aborts   *)
(* the process: the model records it as status = "panicked", keeps the     *)
(* writes made before the panic, and enables no operation afterwards.      *)
(* usize values are modelled as unbounded naturals: the only unmasked      *)
(* additions (pc, index) stay far below 2^64 within the bounds used here.  *)
(***************************************************************************)
EXTENDS Integers, Sequences, FiniteSets, TLC

(***************************************************************************)
(* Sizes fixed by the program.                                             *)
(***************************************************************************)
MemSize == 4096
DisplaySize == 8192
NumKeys == 16
NumRegisters == 16
RomStart == 512
ScreenWidth == 64
ScreenHeight == 32
FrameRate == 60
LastFetchPc == 4094

(***************************************************************************)
(* Bounds of the model.                                                    *)
(***************************************************************************)
MaxFrames == 4
MaxKey == 1
MaxRnd == 1
ValSpread == 1
MaxOps == 3
MaxOpFrames == 6

Byte == 0..255

(***************************************************************************)
(* Bitwise operators of Rust on non-negative integers.                     *)
(***************************************************************************)
(* Bind(e, F) is F(e) with e evaluated once, before F is applied to it.    *)
Bind(e, F(_)) == CHOOSE r \in {F(v) : v \in {e}} : TRUE

RECURSIVE BitAnd(_, _)
BitAnd(a, b) ==
    IF a = 0 \/ b = 0 THEN 0
    ELSE (a % 2) * (b % 2) + 2 * BitAnd(a \div 2, b \div 2)

RECURSIVE BitOr(_, _)
BitOr(a, b) ==
    IF a = 0 THEN b
    ELSE IF b = 0 THEN a
    ELSE (IF a % 2 = 1 \/ b % 2 = 1 THEN 1 ELSE 0) + 2 * BitOr(a \div 2, b \div 2)

RECURSIVE BitXor(_, _)
BitXor(a, b) ==
    IF a = 0 THEN b
    ELSE IF b = 0 THEN a
    ELSE ((a + b) % 2) + 2 * BitXor(a \div 2, b \div 2)

(* (v as isize) & 0xFF for a possibly negative difference of two bytes:    *)
(* the two's complement low byte.                                          *)
LowByteSigned(v) == IF v >= 0 THEN BitAnd(v, 255) ELSE BitAnd(v + 256 * 256, 255)

FONT == <<
    240, 144, 144, 144, 240,  32,  96,  32,  32, 112, 240,  16, 240, 128, 240, 240,
     16, 240,  16, 240, 144, 144, 240,  16,  16, 240, 128, 240,  16, 240, 240, 128,
    240, 144, 240, 240,  16,  32,  64,  64, 240, 144, 240, 144, 240, 240, 144, 240,
     16, 240, 240, 144, 240, 144, 144, 224, 144, 224, 144, 224, 240, 128, 128, 128,
    240, 224, 144, 144, 144, 224, 240, 128, 240, 128, 240, 240, 128, 240, 128, 128 >>

VARIABLES
    key_inputs,      \* io.key_inputs: [u8; 16]
    display_buffer,  \* io.display_buffer: [u8; 8192]
    memory,          \* io.memory: [u8; 4096]
    stack,           \* io.stack: Vec<usize>
    registers,       \* cpu.registers: [usize; 16]
    pc,              \* cpu.pc
    index,           \* cpu.index
    sound_timer,     \* cpu.sound_timer
    delay_timer,     \* cpu.delay_timer
    waiting,         \* cpu.waiting
    clock_speed,     \* cpu.clock_speed
    status,          \* "new" | "running" | "panicked" (process aborted)
    obs              \* what load_rom and the last cycle call did (observation only)

vars == <<key_inputs, display_buffer, memory, stack, registers, pc, index,
          sound_timer, delay_timer, waiting, clock_speed, status, obs>>

(***************************************************************************)
(* The machine as one record, the argument of the executor operators.      *)
(***************************************************************************)
Machine ==
    [key_inputs |-> key_inputs, display_buffer |-> display_buffer,
     memory |-> memory, stack |-> stack, registers |-> registers, pc |-> pc,
     index |-> index, sound_timer |-> sound_timer, delay_timer |-> delay_timer,
     waiting |-> waiting, clock_speed |-> clock_speed, status |-> status]

Install(m) ==
    /\ key_inputs' = m.key_inputs
    /\ display_buffer' = m.display_buffer
    /\ memory' = m.memory
    /\ stack' = m.stack
    /\ registers' = m.registers
    /\ pc' = m.pc
    /\ index' = m.index
    /\ sound_timer' = m.sound_timer
    /\ delay_timer' = m.delay_timer
    /\ waiting' = m.waiting
    /\ clock_speed' = m.clock_speed
    /\ status' = m.status

Panic(m) == [m EXCEPT !.status = "panicked"]

(***************************************************************************)
(* Chip8::new                                                              *)
(***************************************************************************)
new(speed) ==
    [key_inputs |-> [k \in 0..(NumKeys - 1) |-> 0],
     display_buffer |-> [i \in 0..(DisplaySize - 1) |->
                            IF (i + 1) % 4 = 0 THEN 0 ELSE 255],
     memory |-> [a \in 0..(MemSize - 1) |->
                    IF a < Len(FONT) THEN FONT[a + 1] ELSE 0],
     stack |-> << >>,
     registers |-> [r \in 0..(NumRegisters - 1) |-> 0],
     pc |-> 512,
     index |-> 0,
     sound_timer |-> 0,
     delay_timer |-> 0,
     waiting |-> FALSE,
     clock_speed |-> speed,
     status |-> "new"]

(***************************************************************************)
(* xor_bits: XOR one sprite bit onto the pixel at (x, y), wrapping each    *)
(* coordinate; the pixel is the alpha byte at 4x + 4wy + 3.                *)
(***************************************************************************)
(* xor_bits that ORs the sprite bit onto the pixel.                        *)
xor_bits_or(sprite_bit, buffer, x0, y0, width) ==
    LET x == IF x0 >= width THEN x0 % width ELSE x0
        y == IF y0 >= 32 THEN y0 % 32 ELSE y0
        at == 4 * x + 4 * width * y + 3
        display_bit == IF buffer[at] > 0 THEN 1 ELSE 0
        result == BitOr(sprite_bit, display_bit)
    IN  [vf |-> IF result < display_bit THEN 1 ELSE 0,
         display_buffer |-> [buffer EXCEPT ![at] = IF result = 1 THEN 255 ELSE 0]]

xor_bits(sprite_bit, buffer, x0, y0, width) ==
    LET x == IF x0 >= width THEN x0 % width ELSE x0
        y == IF y0 >= 32 THEN y0 % 32 ELSE y0
        at == 4 * x + 4 * width * y + 3
        display_bit == IF buffer[at] > 0 THEN 1 ELSE 0
        result == BitXor(sprite_bit, display_bit)
    IN  [vf |-> IF result < display_bit THEN 1 ELSE 0,
         display_buffer |-> [buffer EXCEPT ![at] = IF result = 1 THEN 255 ELSE 0]]

(* Bits k..0 of one sprite byte, bit k at (x + 7 - k, y): the eight        *)
(* xor_bits calls of one loop iteration, one after the other; vf is set    *)
(* as soon as one call returns 1.                                          *)
RECURSIVE draw_bits(_, _, _, _, _)
draw_bits(byte, acc, x, y, k) ==
    IF k < 0 THEN acc
    ELSE
        LET sprite_bit == IF BitAnd(byte, 2 ^ k) > 0 THEN 1 ELSE 0
            next(r) == draw_bits(byte,
                                 [vf |-> IF r.vf = 1 THEN 1 ELSE acc.vf,
                                  display_buffer |-> r.display_buffer],
                                 x, y, k - 1)
        IN  Bind(xor_bits(sprite_bit, acc.display_buffer, x + 7 - k, y,
                          ScreenWidth),
                 next)

(* One iteration of the loop over the sprite bytes.                        *)
draw_row(byte, acc, x, y) == draw_bits(byte, acc, x, y, 7)

(* The loop over the bytes of the sprite from row r on, row r being drawn  *)
(* at (start_x, start_y + r) before the rows after it.                     *)
RECURSIVE draw_rows(_, _, _, _, _, _, _)
draw_rows(mem, acc, sprite_index, sprite_size, start_x, start_y, r) ==
    IF r >= sprite_size THEN acc
    ELSE
        LET next(row) == draw_rows(mem, row, sprite_index, sprite_size,
                                   start_x, start_y, r + 1)
        IN  Bind(draw_row(mem[sprite_index + r], acc, start_x, start_y + r),
                 next)

(***************************************************************************)
(* draw_sprite: the slice memory[sprite_index..sprite_index + sprite_size] *)
(* panics when it ends beyond the memory; ok = FALSE is that panic.        *)
(***************************************************************************)
draw_sprite(mem, buffer, sprite_index, sprite_size, start_x, start_y) ==
    IF sprite_index + sprite_size > MemSize
    THEN [ok |-> FALSE, vf |-> 0, display_buffer |-> buffer]
    ELSE LET r == draw_rows(mem, [vf |-> 0, display_buffer |-> buffer],
                              sprite_index, sprite_size, start_x, start_y, 0)
         IN  [ok |-> TRUE, vf |-> r.vf, display_buffer |-> r.display_buffer]

(***************************************************************************)
(* Helpers of process_opcode.                                              *)
(***************************************************************************)
SetReg(m, r, v) == [m EXCEPT !.registers[r] = v]

Skip(m, cond) == IF cond THEN [m EXCEPT !.pc = m.pc + 2] ELSE m

(* io.memory[addr] = v as u8, a bounds-checked write; nothing happens      *)
(* once the machine has panicked.                                          *)
(* StoreByte that wraps the address around the end of the memory.          *)
StoreByteWrapping(m, addr, v) ==
    IF m.status = "panicked" THEN m
    ELSE [m EXCEPT !.memory[addr % MemSize] = v % 256]

StoreByte(m, addr, v) ==
    IF m.status = "panicked" THEN m
    ELSE IF addr >= MemSize THEN Panic(m)
    ELSE [m EXCEPT !.memory[addr] = v % 256]

(* StoreRegisters over registers[0..vx], the register vx left out.        *)
RECURSIVE StoreRegistersExclusive(_, _, _)
StoreRegistersExclusive(m, i, vx) ==
    IF i >= vx THEN m
    ELSE StoreRegistersExclusive(StoreByte(m, i + m.index, m.registers[i]),
                                 i + 1, vx)

(* LD [I], Vx: registers 0..vx, one write after the other.                 *)
RECURSIVE StoreRegisters(_, _, _)
StoreRegisters(m, i, vx) ==
    IF i > vx THEN m
    ELSE StoreRegisters(StoreByte(m, i + m.index, m.registers[i]), i + 1, vx)

(* LD Vx, [I]: the slice is taken (and checked) before any register is     *)
(* written.                                                                *)
LoadRegisters(m, vx) ==
    IF m.index + vx + 1 > MemSize THEN Panic(m)
    ELSE [m EXCEPT !.registers =
            [r \in 0..(NumRegisters - 1) |->
                IF r <= vx THEN m.memory[m.index + r] ELSE m.registers[r]]]

(* FirstKey taking the last pressed key (rposition) instead of the first.  *)
LastKey(keys) ==
    IF \E k \in 0..(NumKeys - 1) : keys[k] = 1
    THEN CHOOSE k \in 0..(NumKeys - 1) :
            /\ keys[k] = 1
            /\ \A j \in (k + 1)..(NumKeys - 1) : keys[j] # 1
    ELSE NumKeys

(* io.key_inputs.iter().position(|&x| x == 1): 16 when there is none.      *)
FirstKey(keys) ==
    IF \E k \in 0..(NumKeys - 1) : keys[k] = 1
    THEN CHOOSE k \in 0..(NumKeys - 1) :
            /\ keys[k] = 1
            /\ \A j \in 0..(k - 1) : keys[j] # 1
    ELSE NumKeys

(***************************************************************************)
(* process_opcode, group 0x8000: register-to-register arithmetic.          *)
(***************************************************************************)
(* add_carry with the carry test off by one (sum >= 255).                   *)
add_carry_from_255(m, vx, vy) ==
    LET sum == m.registers[vx] + m.registers[vy]
        result == IF sum >= 255 THEN BitAnd(sum, 255) ELSE sum
        carry == IF sum >= 255 THEN 1 ELSE 0
    IN  SetReg(SetReg(m, vx, result), 15, carry)

(* add_carry that keeps the sum as it is (no & 0xFF).                      *)
add_carry_unmasked(m, vx, vy) ==
    LET sum == m.registers[vx] + m.registers[vy]
        carry == IF sum > 255 THEN 1 ELSE 0
    IN  SetReg(SetReg(m, vx, sum), 15, carry)

add_carry(m, vx, vy) ==
    LET sum == m.registers[vx] + m.registers[vy]
        result == IF sum > 255 THEN BitAnd(sum, 255) ELSE sum
        carry == IF sum > 255 THEN 1 ELSE 0
    IN  SetReg(SetReg(m, vx, result), 15, carry)

(* SUB Vx, Vy (minuend vx) and SUBN Vx, Vy (minuend vy): the flag is       *)
(* written first, the difference is computed from the registers after it.  *)
sub_borrow(m, vx, minuend, subtrahend) ==
    LET f == SetReg(m, 15,
                    IF m.registers[minuend] > m.registers[subtrahend]
                    THEN 1 ELSE 0)
    IN  SetReg(f, vx,
               LowByteSigned(f.registers[minuend] - f.registers[subtrahend]))

(* shift_right taking the flag from the shifted value.                     *)
shift_right_flag_after(m, vx) ==
    LET f == SetReg(m, vx, m.registers[vx] \div 2)
    IN  SetReg(f, 15, BitAnd(f.registers[vx], 1))

(* SHR Vx: the flag is written first, then registers[vx] /= 2.             *)
shift_right(m, vx) ==
    LET f == SetReg(m, 15, BitAnd(m.registers[vx], 1))
    IN  SetReg(f, vx, f.registers[vx] \div 2)

(* SHL Vx: the flag is written first, then registers[vx] * 2 & 0xFF.       *)
shift_left(m, vx) ==
    LET f == SetReg(m, 15, IF BitAnd(m.registers[vx], 128) > 0 THEN 1 ELSE 0)
    IN  SetReg(f, vx, BitAnd(f.registers[vx] * 2, 255))

alu_op(m, op_code, vx, vy) ==
    LET n == BitAnd(op_code, 15)
        rx == m.registers[vx]
        ry == m.registers[vy]
    IN  CASE n = 0 -> SetReg(m, vx, ry)
          [] n = 1 -> SetReg(m, vx, BitOr(rx, ry))
          [] n = 2 -> SetReg(m, vx, BitAnd(rx, ry))
          [] n = 3 -> SetReg(m, vx, BitXor(rx, ry))
          [] n = 4 -> add_carry(m, vx, vy)
          [] n = 5 -> sub_borrow(m, vx, vx, vy)
          [] n = 6 -> shift_right(m, vx)
          [] n = 7 -> sub_borrow(m, vx, vy, vx)
          [] n = 14 -> shift_left(m, vx)
          [] OTHER -> m

(***************************************************************************)
(* process_opcode, group 0xE000: skips on the key latch selected by Vx;    *)
(* key_inputs[registers[vx]] panics for a register value above 15.         *)
(***************************************************************************)
key_op(m, op_code, vx) ==
    LET low == BitAnd(op_code, 255)
        key == m.registers[vx]
    IN  CASE low = 158 ->
                IF key >= NumKeys THEN Panic(m)
                ELSE Skip(m, m.key_inputs[key] > 0)
          [] low = 161 ->
                IF key >= NumKeys THEN Panic(m)
                ELSE Skip(m, m.key_inputs[key] = 0)
          [] OTHER -> m

(* wait_key without the rewind of pc while waiting.                         *)
wait_key_no_rewind(m, vx) ==
    LET key == FirstKey(m.key_inputs)
    IN  IF key < NumKeys
        THEN SetReg([m EXCEPT !.waiting = FALSE], vx, key)
        ELSE [m EXCEPT !.waiting = TRUE]

(* wait_key that stores the key but forgets to clear the waiting flag.     *)
wait_key_keeps_flag(m, vx) ==
    LET key == FirstKey(m.key_inputs)
        found == IF key < NumKeys
                 THEN SetReg(m, vx, key)
                 ELSE [m EXCEPT !.waiting = TRUE]
    IN  IF found.waiting THEN [found EXCEPT !.pc = found.pc - 2] ELSE found

(* wait_key that never looks at the key latches.                           *)
wait_key_ignores_keys(m, vx) == [m EXCEPT !.waiting = TRUE, !.pc = m.pc - 2]

(* LD Vx, K                                                                *)
wait_key(m, vx) ==
    LET key == FirstKey(m.key_inputs)
        found == IF key < NumKeys
                 THEN SetReg([m EXCEPT !.waiting = FALSE], vx, key)
                 ELSE [m EXCEPT !.waiting = TRUE]
    IN  IF found.waiting THEN [found EXCEPT !.pc = found.pc - 2] ELSE found

(***************************************************************************)
(* process_opcode, group 0xF000.                                           *)
(***************************************************************************)
misc_op(m, op_code, vx) ==
    LET low == BitAnd(op_code, 255)
        rx == m.registers[vx]
    IN  CASE low = 7 -> SetReg(m, vx, m.delay_timer)
          [] low = 10 -> wait_key(m, vx)
          [] low = 21 -> [m EXCEPT !.delay_timer = rx]
          [] low = 24 -> [m EXCEPT !.sound_timer = rx]
          [] low = 30 -> [m EXCEPT !.index = m.index + rx]
          [] low = 41 -> [m EXCEPT !.index = BitAnd(5 * rx, 4095)]
          [] low = 51 ->
                StoreByte(StoreByte(StoreByte(m, m.index, (rx \div 100) % 10),
                                    m.index + 1, (rx \div 10) % 10),
                          m.index + 2, rx % 10)
          [] low = 85 -> StoreRegisters(m, 0, vx)
          [] low = 101 -> LoadRegisters(m, vx)
          [] OTHER -> m

(* clear_screen that starts one byte late (skip(4)).                       *)
clear_screen_skip_four(m) ==
    [m EXCEPT !.display_buffer =
        [i \in 0..(DisplaySize - 1) |->
            IF i < 4 THEN m.display_buffer[i] ELSE 0]]

(* CLS: every byte of the buffer from index 3 on (iter_mut().skip(3)).      *)
clear_screen(m) ==
    [m EXCEPT !.display_buffer =
        [i \in 0..(DisplaySize - 1) |->
            IF i < 3 THEN m.display_buffer[i] ELSE 0]]

(* ret that ignores the empty stack instead of panicking.                  *)
ret_ignores_empty(m) ==
    IF Len(m.stack) > 0
    THEN [m EXCEPT !.pc = m.stack[Len(m.stack)],
                   !.stack = SubSeq(m.stack, 1, Len(m.stack) - 1)]
    ELSE m

(* ret that takes the oldest return address instead of the newest.        *)
ret_pops_first(m) ==
    IF Len(m.stack) > 0
    THEN [m EXCEPT !.pc = m.stack[1], !.stack = Tail(m.stack)]
    ELSE Panic(m)

(* RET: io.stack.pop() into pc, panic! on the empty stack.                 *)
ret(m) ==
    IF Len(m.stack) > 0
    THEN [m EXCEPT !.pc = m.stack[Len(m.stack)],
                   !.stack = SubSeq(m.stack, 1, Len(m.stack) - 1)]
    ELSE Panic(m)

(* jump without the 12-bit address mask.                                   *)
jump_unmasked(m, op_code) == [m EXCEPT !.pc = op_code]

(* JMP nnn                                                                 *)
jump(m, op_code) == [m EXCEPT !.pc = BitAnd(op_code, 4095)]

(* CALL nnn                                                                *)
call(m, op_code) ==
    [m EXCEPT !.stack = Append(m.stack, m.pc), !.pc = BitAnd(op_code, 4095)]

(***************************************************************************)
(* process_opcode(io, cpu, op_code); rnd is the value of rand::random().   *)
(***************************************************************************)
process_opcode(m, op_code, rnd) ==
    IF op_code = 224 THEN clear_screen(m)
    ELSE IF op_code = 238 THEN ret(m)
    ELSE
        LET vx == BitAnd(op_code, 3840) \div 256
            vy == BitAnd(op_code, 240) \div 16
            byte == BitAnd(op_code, 255)
            addr == BitAnd(op_code, 4095)
            group == BitAnd(op_code, 61440)
        IN  CASE group = 4096 -> jump(m, op_code)
              [] group = 8192 -> call(m, op_code)
              [] group = 12288 -> Skip(m, m.registers[vx] = byte)
              [] group = 16384 -> Skip(m, m.registers[vx] # byte)
              [] group = 20480 -> Skip(m, m.registers[vx] = m.registers[vy])
              [] group = 24576 -> SetReg(m, vx, byte)
              [] group = 28672 ->
                    SetReg(m, vx, BitAnd(m.registers[vx] + byte, 255))
              [] group = 32768 -> alu_op(m, op_code, vx, vy)
              [] group = 36864 -> Skip(m, m.registers[vx] # m.registers[vy])
              [] group = 40960 -> [m EXCEPT !.index = addr]
              [] group = 45056 -> [m EXCEPT !.pc = m.registers[0] + addr]
              [] group = 49152 -> SetReg(m, vx, BitAnd(BitAnd(rnd, 255), byte))
              [] group = 53248 ->
                    LET d == draw_sprite(m.memory, m.display_buffer, m.index,
                                         BitAnd(op_code, 15),
                                         m.registers[vx], m.registers[vy])
                    IN  IF d.ok
                        THEN SetReg([m EXCEPT !.display_buffer = d.display_buffer],
                                    15, d.vf)
                        ELSE Panic(m)
              [] group = 57344 -> key_op(m, op_code, vx)
              [] group = 61440 -> misc_op(m, op_code, vx)
              [] OTHER -> m

(***************************************************************************)
(* Chip8::load_rom once the file has been read into buffer: byte i goes to *)
(* memory[i + 512], in ascending order; the write at the first index       *)
(* i + 512 = 4096 panics, after every in-bounds byte has been written.     *)
(***************************************************************************)
load_rom(m, buffer) ==
    LET copied == [m EXCEPT !.memory =
                    [a \in 0..(MemSize - 1) |->
                        IF a >= 512 /\ a - 512 < Len(buffer)
                        THEN buffer[a - 512 + 1] ELSE m.memory[a]]]
    IN  IF Len(buffer) + 512 > MemSize
        THEN Panic(copied)
        ELSE [copied EXCEPT !.status = "running"]

(***************************************************************************)
(* Chip8::cycle.  The loop state f carries the machine, the loop counter,  *)
(* the log of the instructions fetched (address and opcode) and whether    *)
(* the loop was left by the early return.                                  *)
(***************************************************************************)
(* run_loop with the loop test off by one (counter <= clock_speed / 60).   *)
RECURSIVE run_loop_one_more(_, _)
run_loop_one_more(f, rnds) ==
    IF ~(f.counter <= f.m.clock_speed \div 60) THEN f
    ELSE IF f.m.pc > 4094 THEN [f EXCEPT !.early = TRUE]
    ELSE
        LET high_byte == f.m.memory[f.m.pc]
            low_byte == f.m.memory[f.m.pc + 1]
            fetched == [f.m EXCEPT !.pc = f.m.pc + 2]
            rnd == IF f.counter + 1 \in DOMAIN rnds
                   THEN rnds[f.counter + 1] ELSE 255
            executed(op_code) ==
                [f EXCEPT !.m = process_opcode(fetched, op_code, rnd),
                          !.log = Append(f.log, [pc |-> f.m.pc,
                                                 op_code |-> op_code])]
            continue(g) ==
                IF g.m.status = "panicked" THEN g
                ELSE run_loop_one_more([g EXCEPT !.counter = f.counter + 1],
                                       rnds)
        IN  Bind(BitOr(high_byte * 256, low_byte),
                 LAMBDA op_code : Bind(executed(op_code), continue))

(* One iteration fetches the opcode at pc, advances pc by 2 and executes   *)
(* the opcode; a panic inside process_opcode ends the loop and the call.   *)
RECURSIVE run_loop(_, _)
run_loop(f, rnds) ==
    IF ~(f.counter < f.m.clock_speed \div 60) THEN f
    ELSE IF f.m.pc > 4094 THEN [f EXCEPT !.early = TRUE]
    ELSE
        LET high_byte == f.m.memory[f.m.pc]
            low_byte == f.m.memory[f.m.pc + 1]
            fetched == [f.m EXCEPT !.pc = f.m.pc + 2]
            executed(op_code) ==
                [f EXCEPT !.m = process_opcode(fetched, op_code,
                                               rnds[f.counter + 1]),
                          !.log = Append(f.log, [pc |-> f.m.pc,
                                                 op_code |-> op_code])]
            continue(g) ==
                IF g.m.status = "panicked" THEN g
                ELSE run_loop([g EXCEPT !.counter = f.counter + 1], rnds)
        IN  Bind(BitOr(high_byte * 256, low_byte),
                 LAMBDA op_code : Bind(executed(op_code), continue))

tick(t) == IF t > 0 THEN t - 1 ELSE t

cycle(m, rnds) ==
    LET timers(f) ==
            [m |-> IF f.early \/ f.m.status = "panicked"
                   THEN f.m
                   ELSE [f.m EXCEPT !.delay_timer = tick(f.m.delay_timer),
                                    !.sound_timer = tick(f.m.sound_timer)],
             log |-> f.log,
             early |-> f.early,
             batch_dt |-> f.m.delay_timer,
             batch_st |-> f.m.sound_timer]
    IN  Bind(run_loop([m |-> m, counter |-> 0, log |-> << >>,
                       early |-> FALSE], rnds),
             timers)

press_key(m, key) == [m EXCEPT !.key_inputs[key] = 1]

unpress_key(m, key) == [m EXCEPT !.key_inputs[key] = 0]

(***************************************************************************)
(* Inputs: the ROM files, the clock speeds of the command line, the keys   *)
(* of the keyboard handler and the values of the random generator.         *)
(***************************************************************************)
RECURSIVE WordsToBytes(_)
WordsToBytes(words) ==
    IF words = << >> THEN << >>
    ELSE <<Head(words) \div 256, Head(words) % 256>> \o WordsToBytes(Tail(words))

(* A file of len bytes whose 2-byte words are all unassigned 0nnn opcodes. *)
Filler(len) == [i \in 1..len |-> 1 + (i % 7)]

Roms == <<
    \* 1: LD VA,2; CLS; JP 0x200
    WordsToBytes(<<27138, 224, 4608>>),
    \* 2: LD V3,K; ADD V3,1; JP 0x200
    WordsToBytes(<<62218, 29441, 4608>>),
    \* 3: RET on the empty stack
    WordsToBytes(<<238>>),
    \* 4: CALL 0x206; CALL 0x206; JP 0x200; RET
    WordsToBytes(<<8710, 8710, 4608, 238>>),
    \* 5: LD V0,0x20; LD DT,V0; LD ST,V0; LD V2,DT; JP 0xFFF
    WordsToBytes(<<24608, 61461, 61464, 61959, 8191>>),
    \* 6: LD V0,0xFF; LD ST,V0; JP V0,0xEFF (to 4094, the last fetch address)
    WordsToBytes(<<24831, 61464, 48895>>),
    \* 7: RND V0,0xFF; RND V1,0x0F; ADD V0,V1; SUB V0,V1; JP 0x200
    WordsToBytes(<<49407, 49423, 32788, 32789, 4608>>),
    \* 8: the largest file that fits
    Filler(MemSize - 512),
    \* 9: one byte more than fits
    Filler(MemSize - 512 + 1),
    \* 10: LD V0,0xFF; ADD V0,2; LD V1,0xFF; ADD V0,V1; SUB V0,V1; SHL V0;
    \*     SUBN V1,V0; LD I,0; DRW V0,V1,5 twice; LD V2,[I]; LD DT,V0
    WordsToBytes(<<24831, 28674, 25087, 32788, 32789, 32798, 33031, 40960, 53269, 53269, 62053, 61461>>) >>

ClockSpeeds == {30, 60, 180}

(* The highest keys of the keypad: R, F, V are 13, 14, 15.                  *)
Keys == (NumKeys - 1 - MaxKey)..(NumKeys - 1)

RndVals == {255 - 85 * k : k \in 0..MaxRnd}

(* Byte values around 0, 128 and 255.                                      *)
Samples ==
    (0..ValSpread) \cup ((128 - ValSpread)..(127 + ValSpread))
        \cup ((255 - ValSpread)..255)

(* RND Vx,0xFF; RND Vy,0xFF; 8xyN: the instruction N of the 0x8000 group   *)
(* on two random bytes.                                                    *)
AluProgram(n, x, y) ==
    <<49407 + 256 * x, 49407 + 256 * y, 32768 + 256 * x + 16 * y + n>>

AluOps == <<4, 5, 7, 6, 14>>

AluRegs == << <<1, 2>>, <<2, 2>>, <<3, 15>>, <<15, 4>>, <<15, 15>> >>

AluRoms ==
    [i \in 1..(Len(AluOps) * Len(AluRegs)) |->
        LET n == AluOps[((i - 1) % Len(AluOps)) + 1]
            xy == AluRegs[((i - 1) \div Len(AluOps)) + 1]
        IN  WordsToBytes(AluProgram(n, xy[1], xy[2]))]

AluRomIds == {100 + i : i \in 1..Len(AluRoms)}

(* Programs that bring single instructions to the states of interest:     *)
(* sprites drawn at random positions, CLS on a drawn screen, unassigned    *)
(* opcodes, memory accesses at the end of the memory, the index register,  *)
(* register dump and load.                                                 *)
OpRoms == <<
    \* 1: LD I,0; DRW V0,V1,0; RND V0; RND V1; DRW V0,V1,0; CLS
    WordsToBytes(<<40960, 53264, 49407, 49663, 53264, 224>>),
    \* 2: the same with sprites of 1 row
    WordsToBytes(<<40960, 53265, 49407, 49663, 53265, 224>>),
    \* 3: the same with sprites of 5 rows
    WordsToBytes(<<40960, 53269, 49407, 49663, 53269, 224>>),
    \* 4: the same with sprites of 15 rows
    WordsToBytes(<<40960, 53279, 49407, 49663, 53279, 224>>),
    \* 5: LD V0,60; LD V1,0; LD I,0x20C; DRW V0,V1,1 twice; JP 0x20A; the row 0xFF
    WordsToBytes(<<24636, 24832, 41484, 53265, 53265, 4618, 65280>>),
    \* 6: LD VA,7; LD DT,VA; LD ST,VA; CALL 0x20A; (at 0x20A) DRW V0,V0,5; CLS
    WordsToBytes(<<27143, 64021, 64024, 8714, 0, 53253, 224>>),
    \* 7: LD V1,5; then opcodes 0123, 811F, E1FF, F1FF, 9101
    WordsToBytes(<<24837, 291, 33055, 57855, 61951, 37121>>),
    \* 8: opcodes 5011, 9011, 8128, 812D, E09F, F056
    WordsToBytes(<<20497, 36881, 33064, 33069, 57503, 61526>>),
    \* 9: LD I,0xFFE; LD V0,0xFF; LD B,V0 (three cells from 4094)
    WordsToBytes(<<45054, 24831, 61491>>),
    \* 10: LD I,0xFFE; LD V0,0xFF; LD [I],V2 (three cells from 4094)
    WordsToBytes(<<45054, 24831, 62037>>),
    \* 11: LD I,0xFFE; LD V0,0xFF; LD V2,[I] (three cells from 4094)
    WordsToBytes(<<45054, 24831, 62053>>),
    \* 12: LD I,0xFFE; LD V0,0xFF; DRW V0,V0,5 (five cells from 4094)
    WordsToBytes(<<45054, 24831, 53253>>),
    \* 13: LD I,0xFFD; LD V0,0xFF; LD B,V0; LD [I],V2; LD V2,[I]; DRW V0,V0,3
    WordsToBytes(<<45053, 24831, 61491, 62037, 62053, 53251>>),
    \* 14: LD I,0xFFF; LD V0,0xFF; ADD I,V0; LD F,V0; ADD I,V0
    WordsToBytes(<<45055, 24831, 61470, 61481, 61470>>),
    \* 15: RND V0; RND V1; LD [I],V1; LD V0,0x11; LD V1,0x22; LD V1,[I]
    WordsToBytes(<<49407, 49663, 61781, 24593, 24866, 61797>>),
    \* 16: LD I,0x300; LD VA,7; LD VF,9; LD [I],VF; LD VF,[I]; LD V0,[I]
    WordsToBytes(<<41728, 27143, 28425, 65365, 65381, 61541>>),
    \* 17: CALL 0x204; JP 0x202; (0x204) CALL 0x208; RET; (0x208) CALL 0x20C;
    \*     RET; (0x20C) RET
    WordsToBytes(<<8708, 4610, 8712, 238, 8716, 238, 238>>) >>

OpRomIds == {200 + i : i \in 1..Len(OpRoms)}

RomFile(id) ==
    IF id > 200 THEN OpRoms[id - 200]
    ELSE IF id > 100 THEN AluRoms[id - 100]
    ELSE Roms[id]

(***************************************************************************)
(* The program: main builds the machine with Chip8::new(clock_speed) and   *)
(* loads the ROM named on the command line; the event loop then calls      *)
(* cycle from update and press_key / unpress_key from the key handlers,    *)
(* one call at a time.  obs.rom is the ROM of the command line.            *)
(***************************************************************************)
Observe(last, rom, frames, c) ==
    [last |-> last, rom |-> rom, frames |-> frames, log |-> c.log,
     early |-> c.early, batch_dt |-> c.batch_dt, batch_st |-> c.batch_st]

NoCycle == [log |-> << >>, early |-> FALSE, batch_dt |-> 0, batch_st |-> 0]

InitWith(speeds, roms) ==
    /\ \E speed \in speeds :
        /\ key_inputs = new(speed).key_inputs
        /\ display_buffer = new(speed).display_buffer
        /\ memory = new(speed).memory
        /\ stack = new(speed).stack
        /\ registers = new(speed).registers
        /\ pc = new(speed).pc
        /\ index = new(speed).index
        /\ sound_timer = new(speed).sound_timer
        /\ delay_timer = new(speed).delay_timer
        /\ waiting = new(speed).waiting
        /\ clock_speed = new(speed).clock_speed
        /\ status = new(speed).status
    /\ \E rom \in roms : obs = Observe("new", rom, 0, NoCycle)

Init == InitWith(ClockSpeeds, 1..Len(Roms))

LoadRom ==
    /\ status = "new"
    /\ Install(load_rom(Machine, RomFile(obs.rom)))
    /\ obs' = Observe("load_rom", obs.rom, 0, NoCycle)

(* File::open or read_to_end fails: load_rom returns the error before      *)
(* touching the memory and main exits with it.                             *)
LoadRomIoError ==
    /\ status = "new"
    /\ Install([Machine EXCEPT !.status = "exited"])
    /\ obs' = Observe("io_error", obs.rom, 0, NoCycle)

CycleWith(rndvals, maxframes) ==
    /\ status = "running"
    /\ obs.frames < maxframes
    /\ \E rnds \in [1..(clock_speed \div 60) -> rndvals] :
        LET c == cycle(Machine, rnds)
        IN  /\ Install(c.m)
            /\ obs' = Observe("cycle", obs.rom, obs.frames + 1, c)

Cycle == CycleWith(RndVals, MaxFrames)

PressKey ==
    /\ status = "running"
    /\ \E key \in Keys :
        /\ Install(press_key(Machine, key))
        /\ obs' = obs

UnpressKey ==
    /\ status = "running"
    /\ \E key \in Keys :
        /\ Install(unpress_key(Machine, key))
        /\ obs' = obs

Next == LoadRom \/ LoadRomIoError \/ Cycle \/ PressKey \/ UnpressKey

Spec == Init /\ [][Next]_vars

(***************************************************************************)
(* The arithmetic instructions one at a time: clock speed 60 executes one  *)
(* instruction per cycle call, on the ROMs of AluRoms, whose operands are  *)
(* random bytes drawn from Samples.                                        *)
(***************************************************************************)
InitAlu == InitWith({60}, AluRomIds)

CycleAlu == CycleWith(Samples, MaxOps)

NextAlu == LoadRom \/ CycleAlu

SpecAlu == InitAlu /\ [][NextAlu]_vars

(***************************************************************************)
(* The other instructions one at a time: clock speed 60 on the ROMs of     *)
(* OpRoms, random bytes drawn from Samples.                                *)
(***************************************************************************)
InitOps == InitWith({60}, OpRomIds)

CycleOps == CycleWith(Samples, MaxOpFrames)

NextOps == LoadRom \/ CycleOps

SpecOps == InitOps /\ [][NextOps]_vars

(***************************************************************************)
(* The event loop running for ever on the wait-for-key program (ROM 2) at  *)
(* clock speeds of at least 60: ggez calls update, hence cycle, again and  *)
(* again, which is weak fairness of the cycle action; key events come      *)
(* whenever the user produces them.  obs.frames counts the calls up to     *)
(* MaxFrames.                                                              *)
(***************************************************************************)
InitWait == InitWith({60, 180}, {2})

CycleRepeated ==
    /\ status = "running"
    /\ \E rnds \in [1..(clock_speed \div 60) -> RndVals] :
        \E c \in {cycle(Machine, rnds)} :
            /\ Install(c.m)
            /\ obs' = Observe("cycle", obs.rom,
                              IF obs.frames < MaxFrames
                              THEN obs.frames + 1 ELSE obs.frames, c)

NextWait == LoadRom \/ CycleRepeated \/ PressKey \/ UnpressKey

SpecWait == InitWait /\ [][NextWait]_vars /\ WF_vars(CycleRepeated)

(***************************************************************************)
(* Vocabulary of the properties.                                           *)
(***************************************************************************)
OpAt(mem, at) == mem[at] * 256 + mem[at + 1]

OpX(op) == (op \div 256) % 16

OpY(op) == (op \div 16) % 16

PerFrame == clock_speed \div 60

PressedKeys == {k \in 0..(NumKeys - 1) : key_inputs[k] # 0}

AtOpcode(op) == status = "running" /\ pc <= 4094 /\ OpAt(memory, pc) = op

IsWaitKey(op) == op \div 4096 = 15 /\ op % 256 = 10

AtWaitKey == status = "running" /\ pc <= 4094 /\ IsWaitKey(OpAt(memory, pc))

(* The step is one call of cycle.                                          *)
IsCycleStep == obs'.frames = obs.frames + 1

AfterCycle == obs.last = "cycle"

LastLogged == obs.log[Len(obs.log)]

PixelOn(buffer, px, py) == buffer[4 * px + 4 * ScreenWidth * py + 3] > 0

PixelsOn(buffer) ==
    {p \in (0..(ScreenWidth - 1)) \X (0..(ScreenHeight - 1)) :
        PixelOn(buffer, p[1], p[2])}

IsOneStep == status = "running" /\ pc <= 4094 /\ PerFrame = 1 /\ IsCycleStep

AllPixelsOff ==
    \A x \in 0..(ScreenWidth - 1), y \in 0..(ScreenHeight - 1) :
        display_buffer[4 * x + 4 * ScreenWidth * y + 3] = 0

(***************************************************************************)
(* C1: a call of cycle that returns has executed exactly                   *)
(* floor(clock_speed / 60) instructions, unless it found pc > 4094 before  *)
(* a fetch: then it has returned early, with fewer instructions and        *)
(* without any error.  No opcode fetch reads outside memory 0..4095, and   *)
(* no fetch is made at a pc above 4094.                                    *)
(***************************************************************************)
C1_FrameRunsFloorInstructions ==
    AfterCycle =>
        /\ \A i \in 1..Len(obs.log) :
            obs.log[i].pc >= 0 /\ obs.log[i].pc + 1 <= MemSize - 1
        /\ Len(obs.log) <= PerFrame
        /\ obs.early => (status = "running" /\ pc > 4094 /\ Len(obs.log) < PerFrame)
        /\ (status = "running" /\ ~obs.early) => Len(obs.log) = PerFrame

C1_Witness ==
    /\ AfterCycle
    /\ obs.early
    /\ Len(obs.log) > 0
    /\ LastLogged.pc = 4094

(***************************************************************************)
(* C2: every call of cycle that returns leaves each timer at               *)
(* max(0, t - 1), t being the timer after the last instruction of the      *)
(* call, whatever the program counter is.                                  *)
(***************************************************************************)
C2_TimersTickEveryFrame ==
    (AfterCycle /\ status = "running") =>
        /\ delay_timer = (IF obs.batch_dt > 0 THEN obs.batch_dt - 1 ELSE 0)
        /\ sound_timer = (IF obs.batch_st > 0 THEN obs.batch_st - 1 ELSE 0)

(***************************************************************************)
(* C3 as stated: with the program 6A02, 00E0, 1200 and clock speed 60,     *)
(* after exactly one call of cycle VA = 2, every pixel is off and pc is    *)
(* back at 512.                                                            *)
(***************************************************************************)
C3_LoopedBackAfterOneFrame ==
    (AfterCycle /\ obs.rom = 1 /\ clock_speed = 60 /\ obs.frames = 1) =>
        /\ registers[10] = 2
        /\ AllPixelsOff
        /\ pc = 512

(***************************************************************************)
(* C3 amended: at clock speed 60 a call of cycle executes one instruction, *)
(* so after exactly one call VA = 2, every pixel is off and pc = 514; pc   *)
(* is back at 512 after exactly three calls, or after exactly one call at  *)
(* clock speed 180, again with VA = 2 and every pixel off.                 *)
(***************************************************************************)
C3_LoopedBackAfterThreeInstructions ==
    (AfterCycle /\ obs.rom = 1) =>
        /\ (clock_speed = 60 /\ obs.frames = 1) =>
            (registers[10] = 2 /\ AllPixelsOff /\ pc = 514)
        /\ (clock_speed = 60 /\ obs.frames = 3) =>
            (registers[10] = 2 /\ AllPixelsOff /\ pc = 512)
        /\ (clock_speed = 180 /\ obs.frames = 1) =>
            (registers[10] = 2 /\ AllPixelsOff /\ pc = 512)

C3_Witness ==
    /\ AfterCycle
    /\ obs.rom = 1
    /\ clock_speed = 60
    /\ obs.frames = 3
    /\ pc = 512
    /\ registers[10] = 2

(***************************************************************************)
(* C4: a call of cycle that starts at an Fx0A instruction with clock speed *)
(* at least 60 and no key latch set ends at the same pc with the waiting   *)
(* flag set and registers, index, memory, stack and display unchanged, and *)
(* so is again in the situation it started from.                           *)
(***************************************************************************)
C4_WaitForKeyStalls ==
    [][(AtWaitKey /\ clock_speed >= 60 /\ PressedKeys = {} /\ IsCycleStep) =>
            /\ pc' = pc
            /\ waiting' = TRUE
            /\ registers' = registers
            /\ index' = index
            /\ memory' = memory
            /\ stack' = stack
            /\ display_buffer' = display_buffer
            /\ AtWaitKey']_vars

C4_Witness ==
    /\ AfterCycle
    /\ AtWaitKey
    /\ waiting
    /\ PressedKeys = {}
    /\ obs.frames >= 2
    /\ Len(obs.log) = 3
    /\ \A i \in 1..3 : obs.log[i].pc = pc /\ IsWaitKey(obs.log[i].op_code)

(***************************************************************************)
(* C5: Fx0A executed while some key latch is set stores in Vx the index of *)
(* the lowest-indexed pressed key, changes no other register, clears the   *)
(* waiting flag and leaves pc 2 past the instruction.                      *)
(***************************************************************************)
C5_WaitForKeyResolves ==
    [][(AtWaitKey /\ PerFrame = 1 /\ PressedKeys # {} /\ IsCycleStep) =>
            LET x == OpX(OpAt(memory, pc))
            IN  /\ registers'[x] \in PressedKeys
                /\ \A k \in PressedKeys : registers'[x] <= k
                /\ \A r \in 0..(NumRegisters - 1) :
                    r # x => registers'[r] = registers[r]
                /\ waiting' = FALSE
                /\ pc' = pc + 2
                /\ status' = "running"]_vars

C5_Witness ==
    /\ AfterCycle
    /\ PerFrame = 1
    /\ obs.log = <<[pc |-> 512, op_code |-> 62218]>>
    /\ PressedKeys = {14, 15}
    /\ registers[3] = 14
    /\ ~waiting
    /\ pc = 514

(***************************************************************************)
(* C6 as stated: in every reachable state the waiting flag being true      *)
(* implies that no key latch is set.                                       *)
(***************************************************************************)
C6_WaitingImpliesNoKeyLatched == waiting => PressedKeys = {}

(***************************************************************************)
(* C6 amended: press_key and unpress_key leave the waiting flag unchanged, *)
(* so it can be true while a key latch is set; it is the next call of      *)
(* cycle that clears it (a set flag means the machine stands at an Fx0A    *)
(* instruction), and right after every call of cycle the waiting flag      *)
(* being true implies that no key latch is set.                            *)
(***************************************************************************)
C6_WaitingClearedByNextFrame ==
    [][/\ (status = "running" /\ obs' = obs) => waiting' = waiting
       /\ (status = "running" /\ waiting) => (AtWaitKey /\ clock_speed >= 60)
       /\ (status = "running" /\ waiting /\ PressedKeys # {} /\ IsCycleStep)
            => waiting' = FALSE
       /\ (IsCycleStep /\ waiting') => PressedKeys' = {}]_vars

C6_Witness ==
    /\ status = "running"
    /\ waiting
    /\ PressedKeys # {}

(***************************************************************************)
(* C7: loading a program of length L succeeds iff 512 + L <= 4096; a       *)
(* successful load has copied byte i to memory[512 + i] and changed no     *)
(* other cell; a failed load has modified no memory cell at all.           *)
(***************************************************************************)
C7_LoadAllOrNothing ==
    obs.last = "load_rom" =>
        LET buffer == RomFile(obs.rom)
            before == new(clock_speed).memory
        IN  /\ status = "running" <=> 512 + Len(buffer) <= MemSize
            /\ status = "running" =>
                \A a \in 0..(MemSize - 1) :
                    memory[a] = IF a >= 512 /\ a < 512 + Len(buffer)
                                THEN buffer[a - 511] ELSE before[a]
            /\ status # "running" => memory = before

(***************************************************************************)
(* C8: RET with an empty call stack aborts the machine, and nothing        *)
(* executes after it, neither in the same call of cycle nor later; with a  *)
(* non-empty stack RET does not fail and moves the popped address to pc.   *)
(***************************************************************************)
C8_ReturnOnEmptyStackIsFatal ==
    [][/\ status = "panicked" => UNCHANGED vars
       /\ (AtOpcode(238) /\ clock_speed >= 60 /\ stack = << >> /\ IsCycleStep) =>
            /\ status' = "panicked"
            /\ Len(obs'.log) = 1
            /\ stack' = << >>
       /\ (AtOpcode(238) /\ PerFrame = 1 /\ stack # << >> /\ IsCycleStep) =>
            /\ status' = "running"
            /\ pc' = stack[Len(stack)]
            /\ stack' = SubSeq(stack, 1, Len(stack) - 1)]_vars

C8_Witness ==
    /\ AfterCycle
    /\ status = "panicked"
    /\ clock_speed = 180
    /\ obs.log = <<[pc |-> 512, op_code |-> 238]>>
    /\ stack = << >>

(***************************************************************************)
(* C9: SUB Vx,Vy (a = Vx, b = Vy) and SUBN Vx,Vy (a = Vy, b = Vx) with     *)
(* x # F set VF to 1 iff a >= b, else to 0, and store (a - b) mod 256 in   *)
(* Vx.                                                                     *)
(***************************************************************************)
C9_SubtractFlagIsNoBorrow ==
    [][(status = "running" /\ pc <= 4094 /\ PerFrame = 1 /\ IsCycleStep
            /\ OpAt(memory, pc) \div 4096 = 8
            /\ OpAt(memory, pc) % 16 \in {5, 7}
            /\ OpX(OpAt(memory, pc)) # 15) =>
            LET op == OpAt(memory, pc)
                a == IF op % 16 = 5 THEN registers[OpX(op)] ELSE registers[OpY(op)]
                b == IF op % 16 = 5 THEN registers[OpY(op)] ELSE registers[OpX(op)]
            IN  /\ registers'[15] = (IF a >= b THEN 1 ELSE 0)
                /\ registers'[OpX(op)] = (a - b + 256) % 256]_vars

(***************************************************************************)
(* C10: ADD Vx,Vy with x # F (y = x and y = F included) sets VF to 1 iff   *)
(* Vx + Vy > 255, else to 0, and stores (Vx + Vy) mod 256 in Vx.           *)
(***************************************************************************)
C10_AddSetsCarry ==
    [][(status = "running" /\ pc <= 4094 /\ PerFrame = 1 /\ IsCycleStep
            /\ OpAt(memory, pc) \div 4096 = 8
            /\ OpAt(memory, pc) % 16 = 4
            /\ OpX(OpAt(memory, pc)) # 15) =>
            LET op == OpAt(memory, pc)
                a == registers[OpX(op)]
                b == registers[OpY(op)]
            IN  /\ registers'[15] = (IF a + b > 255 THEN 1 ELSE 0)
                /\ registers'[OpX(op)] = (a + b) % 256
                /\ pc' = pc + 2]_vars

C10_Witness ==
    /\ AfterCycle
    /\ Len(obs.log) = 1
    /\ LastLogged.op_code = 32768 + 256 * 3 + 16 * 15 + 4
    /\ registers[3] = 254
    /\ registers[15] = 1

(***************************************************************************)
(* C11: with x # F, SHR Vx sets VF to the lowest bit of v = Vx and stores  *)
(* floor(v / 2) in Vx; SHL Vx sets VF to bit 7 of v and stores             *)
(* (2 * v) mod 256 in Vx.  The result is a function of v alone, and Vy is  *)
(* unchanged when y differs from x and F.                                  *)
(***************************************************************************)
C11_ShiftsUseVxAlone ==
    [][(status = "running" /\ pc <= 4094 /\ PerFrame = 1 /\ IsCycleStep
            /\ OpAt(memory, pc) \div 4096 = 8
            /\ OpAt(memory, pc) % 16 \in {6, 14}
            /\ OpX(OpAt(memory, pc)) # 15) =>
            LET op == OpAt(memory, pc)
                x == OpX(op)
                y == OpY(op)
                v == registers[x]
            IN  /\ op % 16 = 6 =>
                    (registers'[15] = v % 2 /\ registers'[x] = v \div 2)
                /\ op % 16 = 14 =>
                    (registers'[15] = (v \div 128) % 2
                        /\ registers'[x] = (2 * v) % 256)
                /\ (y # x /\ y # 15) => registers'[y] = registers[y]
                /\ pc' = pc + 2]_vars

C11_Witness ==
    /\ AfterCycle
    /\ Len(obs.log) = 1
    /\ LastLogged.op_code = 32768 + 256 * 1 + 16 * 2 + 6
    /\ registers[1] = 127
    /\ registers[2] = 128
    /\ registers[15] = 1

(***************************************************************************)
(* C12: DRW Vx,Vy,n on a sprite that lies inside the memory XORs bit c     *)
(* (0 the most significant) of sprite row r onto the pixel at column       *)
(* (Vx + c) mod 64, row (Vy + r) mod 32, wraps every pixel on its own,     *)
(* leaves every other pixel as it was, and sets VF to 1 iff some pixel     *)
(* went from on to off.  The row 0xFF drawn at (60, 0) on the clear screen *)
(* turns on columns 60..63 and 0..3 of row 0 with VF = 0, and drawn again  *)
(* turns them off with VF = 1.                                             *)
(***************************************************************************)
C12_Row0Wrapped == {<<c % ScreenWidth, 0>> : c \in 60..67}

C12_SpriteDrawXorsWithWrap ==
    [][(IsOneStep /\ OpAt(memory, pc) \div 4096 = 13
            /\ index + (OpAt(memory, pc) % 16) <= MemSize) =>
            LET op == OpAt(memory, pc)
                n == op % 16
                sx == registers[OpX(op)]
                sy == registers[OpY(op)]
                SpriteBit(r, c) == (memory[index + r] \div (2 ^ (7 - c))) % 2
                Hit(px, py) ==
                    LET c == (px - sx) % ScreenWidth
                        r == (py - sy) % ScreenHeight
                    IN  c < 8 /\ r < n /\ SpriteBit(r, c) = 1
                before == PixelsOn(display_buffer)
                after == PixelsOn(display_buffer')
            IN  /\ status' = "running"
                /\ \A px \in 0..(ScreenWidth - 1), py \in 0..(ScreenHeight - 1) :
                        PixelOn(display_buffer', px, py) <=>
                            (PixelOn(display_buffer, px, py) # Hit(px, py))
                /\ registers'[15] = IF before \ after # {} THEN 1 ELSE 0
                /\ (n = 1 /\ sx = 60 /\ sy = 0 /\ memory[index] = 255
                        /\ before = {}) =>
                        (after = C12_Row0Wrapped /\ registers'[15] = 0)
                /\ (n = 1 /\ sx = 60 /\ sy = 0 /\ memory[index] = 255
                        /\ before = C12_Row0Wrapped) =>
                        (after = {} /\ registers'[15] = 1)]_vars

C12_Witness ==
    /\ AfterCycle
    /\ status = "running"
    /\ Len(obs.log) = 1
    /\ LastLogged.op_code = 53248 + 16 + 5
    /\ registers[0] = 255
    /\ registers[1] = 255
    /\ registers[15] = 1
    /\ PixelOn(display_buffer, 63, 31)
    /\ PixelOn(display_buffer, 0, 0)
    /\ ~PixelOn(display_buffer, 2, 0)

(***************************************************************************)
(* C13: CLS turns every one of the 64 x 32 pixels off whatever the screen  *)
(* showed before, and changes nothing but pc, which advances by 2: the     *)
(* registers (VF included), the index register, the stack, the memory, the *)
(* key latches and, up to the end of the instruction, the timers keep      *)
(* their values.                                                           *)
(***************************************************************************)
C13_ClearScreenOnlyClears ==
    [][(IsOneStep /\ OpAt(memory, pc) = 224) =>
            /\ PixelsOn(display_buffer') = {}
            /\ registers' = registers
            /\ index' = index
            /\ stack' = stack
            /\ memory' = memory
            /\ key_inputs' = key_inputs
            /\ waiting' = waiting
            /\ obs'.batch_dt = delay_timer
            /\ obs'.batch_st = sound_timer
            /\ status' = "running"
            /\ pc' = pc + 2]_vars

C13_Witness ==
    /\ AfterCycle
    /\ Len(obs.log) = 1
    /\ LastLogged.op_code = 224
    /\ LastLogged.pc = 524
    /\ PixelsOn(display_buffer) = {}
    /\ registers[10] = 7
    /\ stack = <<520>>
    /\ obs.batch_dt = 3
    /\ obs.batch_st = 4
    /\ pc = 526

(***************************************************************************)
(* C14: an opcode that matches no instruction (0nnn other than 00E0 and    *)
(* 00EE; 5xyN and 9xyN with N # 0; 8xyN with N in 8..D or F; ExNN other    *)
(* than Ex9E, ExA1; FxNN other than Fx07, 0A, 15, 18, 1E, 29, 33, 55, 65)  *)
(* only advances pc by 2: registers, index, timers, stack, memory,         *)
(* display, waiting flag and key latches are unchanged and the machine     *)
(* keeps running.                                                          *)
(***************************************************************************)
IsUnassigned(op) ==
    LET group == op \div 4096
    IN  \/ group = 0 /\ op \notin {224, 238}
        \/ group \in {5, 9} /\ op % 16 # 0
        \/ group = 8 /\ op % 16 \in (8..13) \cup {15}
        \/ group = 14 /\ op % 256 \notin {158, 161}
        \/ group = 15 /\ op % 256 \notin {7, 10, 21, 24, 30, 41, 51, 85, 101}

C14_UnassignedOpcodeIsNoOp ==
    [][(IsOneStep /\ IsUnassigned(OpAt(memory, pc))) =>
            /\ registers' = registers
            /\ index' = index
            /\ obs'.batch_dt = delay_timer
            /\ obs'.batch_st = sound_timer
            /\ stack' = stack
            /\ memory' = memory
            /\ display_buffer' = display_buffer
            /\ waiting' = waiting
            /\ key_inputs' = key_inputs
            /\ status' = "running"
            /\ pc' = pc + 2]_vars

(***************************************************************************)
(* C15: Fx33, Fx55, Fx65 and Dxyn check the addresses they compute from    *)
(* the index register and never wrap them: when the instruction would      *)
(* access a cell I + k >= 4096 the machine panics, and no cell below I     *)
(* (hence no cell outside I..4095) has been written by it.                 *)
(***************************************************************************)
AccessesBeyondMemory(op) ==
    LET group == op \div 4096
        low == op % 256
    IN  \/ group = 15 /\ low = 51 /\ index + 2 >= MemSize
        \/ group = 15 /\ low \in {85, 101} /\ index + OpX(op) >= MemSize
        \/ group = 13 /\ op % 16 >= 1 /\ index + (op % 16) - 1 >= MemSize

C15_IndexedAccessIsBoundsChecked ==
    [][(IsOneStep /\ AccessesBeyondMemory(OpAt(memory, pc))) =>
            /\ status' = "panicked"
            /\ \A a \in 0..(MemSize - 1) :
                    a < index => memory'[a] = memory[a]]_vars

C15_Witness ==
    /\ status = "panicked"
    /\ Len(obs.log) = 1
    /\ LastLogged.op_code = 61440 + 512 + 85
    /\ index = 4094
    /\ memory[4094] = 255
    /\ memory[4095] = 0
    /\ memory[0] = 240
    /\ memory[1] = 144

(***************************************************************************)
(* C16: in every reachable state each of V0..VF, the delay timer and the   *)
(* sound timer holds a value in 0..255.                                    *)
(***************************************************************************)
C16_RegistersAndTimersAreBytes ==
    /\ \A r \in 0..(NumRegisters - 1) : registers[r] \in Byte
    /\ delay_timer \in Byte
    /\ sound_timer \in Byte

C16_Witness ==
    /\ AfterCycle
    /\ obs.rom = 10
    /\ Len(obs.log) > 0
    /\ LastLogged.op_code = 32768 + 16 + 4
    /\ registers[0] = 0
    /\ registers[1] = 255
    /\ registers[15] = 1

(***************************************************************************)
(* C17: the index register is a 12-bit quantity: in every reachable state  *)
(* it lies in 0..4095, ADD I,Vx included, which would set it to            *)
(* (I + Vx) mod 4096.                                                      *)
(***************************************************************************)
C17_IndexIsTwelveBits == index \in 0..(MemSize - 1)

(***************************************************************************)
(* C18: calls and returns nest.  CALL nnn at address p pushes p + 2 and    *)
(* sets pc to nnn; RET pops the most recently pushed address into pc; no   *)
(* other instruction changes the stack.  The stack therefore holds the     *)
(* return addresses of the calls not yet returned, in call order: every    *)
(* entry is the address after a CALL, and a RET resumes there.             *)
(***************************************************************************)
IsCallAt(mem, at) == at >= 2 /\ at <= MemSize /\ OpAt(mem, at - 2) \div 4096 = 2

C18_CallsAndReturnsNest ==
    [][IsOneStep =>
            LET op == OpAt(memory, pc)
            IN  /\ op \div 4096 = 2 =>
                    /\ stack' = Append(stack, pc + 2)
                    /\ pc' = op % 4096
                /\ (op = 238 /\ stack # << >>) =>
                    /\ pc' = stack[Len(stack)]
                    /\ stack' = SubSeq(stack, 1, Len(stack) - 1)
                    /\ IsCallAt(memory, pc')
                /\ (op \div 4096 # 2 /\ op # 238) => stack' = stack
                /\ \A i \in 1..Len(stack') : IsCallAt(memory', stack'[i])]_vars

C18_Witness ==
    /\ AfterCycle
    /\ Len(obs.log) = 1
    /\ LastLogged.op_code = 238
    /\ LastLogged.pc = 522
    /\ pc = 518
    /\ stack = <<514>>

(***************************************************************************)
(* C20: with I + x <= 4095, LD [I],Vx sets memory[I + k] to Vk for k in    *)
(* 0..x and changes no other memory cell, no register and not I;           *)
(* LD Vx,[I] sets Vk to memory[I + k] for k in 0..x and changes no         *)
(* register above x, no memory cell and not I.  LD Vx,[I] right after      *)
(* LD [I],Vx with the same x therefore leaves V0..Vx as they were.         *)
(***************************************************************************)
C20_DumpAndLoadTouchZeroToX ==
    [][(IsOneStep /\ OpAt(memory, pc) \div 4096 = 15
            /\ OpAt(memory, pc) % 256 \in {85, 101}
            /\ index + OpX(OpAt(memory, pc)) <= MemSize - 1) =>
            LET op == OpAt(memory, pc)
                x == OpX(op)
            IN  /\ status' = "running"
                /\ index' = index
                /\ pc' = pc + 2
                /\ op % 256 = 85 =>
                    /\ registers' = registers
                    /\ \A a \in 0..(MemSize - 1) :
                        memory'[a] = IF a \in index..(index + x)
                                     THEN registers[a - index]
                                     ELSE memory[a]
                /\ op % 256 = 101 =>
                    /\ memory' = memory
                    /\ \A r \in 0..(NumRegisters - 1) :
                        registers'[r] = IF r <= x
                                        THEN memory[index + r]
                                        ELSE registers[r]
                /\ (op % 256 = 101 /\ AfterCycle /\ Len(obs.log) = 1
                        /\ LastLogged.pc = pc - 2
                        /\ LastLogged.op_code = op - 16) =>
                    \A k \in 0..x : registers'[k] = registers[k]]_vars

C20_Witness ==
    /\ AfterCycle
    /\ Len(obs.log) = 1
    /\ LastLogged.op_code = 61440 + 256 + 101
    /\ index = 0
    /\ registers[0] = 254
    /\ registers[1] = 127
    /\ registers[2] = 0
    /\ memory[0] = 254
    /\ memory[1] = 127
    /\ memory[2] = 144

(***************************************************************************)
(* C19: at a clock speed of at least 60, with cycle called again and       *)
(* again, a machine stalled on LD Vx,K while some key latch is set gets    *)
(* past the instruction with the waiting flag cleared, unless the latches  *)
(* are all released before the frame runs; and as long as no key latch is  *)
(* set, no step takes the machine off the stalled instruction.             *)
(***************************************************************************)
C19_Stalled == AtWaitKey /\ waiting

C19_GotPast ==
    /\ ~waiting
    /\ obs.last = "cycle"
    /\ \E i \in 1..Len(obs.log) :
        /\ IsWaitKey(obs.log[i].op_code)
        /\ IF i < Len(obs.log)
           THEN obs.log[i + 1].pc = obs.log[i].pc + 2
           ELSE pc = obs.log[i].pc + 2

C19_KeyResolvesWait ==
    /\ (C19_Stalled /\ PressedKeys # {}) ~> (C19_GotPast \/ PressedKeys = {})
    /\ [][(C19_Stalled /\ PressedKeys = {} /\ PressedKeys' = {}) =>
            (pc' = pc /\ waiting' /\ memory' = memory
                /\ registers' = registers)]_vars

C19_Witness ==
    /\ C19_Stalled
    /\ AfterCycle
    /\ PressedKeys = {15}
    /\ clock_speed = 180
    /\ Len(obs.log) = 3
    /\ \A i \in 1..3 : obs.log[i] = [pc |-> 512, op_code |-> 62218]

(***************************************************************************)
(* C21: only the on/off channel of the display buffer is ever written: in  *)
(* every reachable state the on/off byte of each pixel (index              *)
(* 4x + 256y + 3) is 0 or 255, and every byte whose index is not           *)
(* congruent to 3 modulo 4 still holds its initial value 255.              *)
(***************************************************************************)
C21_OnlyOnOffChannelWritten ==
    \A i \in 0..(DisplaySize - 1) :
        IF i % 4 = 3
        THEN display_buffer[i] \in {0, 255}
        ELSE display_buffer[i] = 255

(***************************************************************************)
(* C22: after ADD, SUB, SHR, SUBN and SHL (8xy4, 8xy5, 8xy6, 8xy7, 8xyE),  *)
(* for every x and y, x = F included, VF holds the carry, no-borrow or     *)
(* shifted-out bit computed from the values Vx and Vy had before the       *)
(* instruction.                                                            *)
(***************************************************************************)
FlagOf(n, a, b) ==
    CASE n = 4 -> IF a + b > 255 THEN 1 ELSE 0
      [] n = 5 -> IF a >= b THEN 1 ELSE 0
      [] n = 6 -> a % 2
      [] n = 7 -> IF b >= a THEN 1 ELSE 0
      [] n = 14 -> (a \div 128) % 2

C22_FlagRegisterHoldsFlag ==
    [][(IsOneStep /\ OpAt(memory, pc) \div 4096 = 8
            /\ OpAt(memory, pc) % 16 \in {4, 5, 6, 7, 14}) =>
            LET op == OpAt(memory, pc)
            IN  registers'[15] = FlagOf(op % 16, registers[OpX(op)],
                                        registers[OpY(op)])]_vars

====
